---- MODULE Spec2Model ----
(***************************************************************************)
(* A model of pgm/factors.py: the Factor class (a list of variable names   *)
(* and a dense numpy table) and the Factors collection that conditions on  *)
(* evidence and runs sum-product variable elimination.                     *)
(*                                                                         *)
(* Representation.  A Factor is a record                                   *)
(*     [vars |-> <<names>>, shape |-> table.shape, table |-> table]        *)
(* where table is a function from index tuples (0-based entries, as in     *)
(* numpy) to numbers.  Positions inside vars/shape are 1-based here where  *)
(* Python's are 0-based; nothing else is shifted.  Table entries are       *)
(* integers: the float32 rounding of __mul__'s result table is not         *)
(* modelled.  A raised Python exception is an outcome string.              *)
(***************************************************************************)
EXTENDS Integers, Sequences, FiniteSets, TLC

VARIABLES factors, last, result, calls

vars == <<factors, last, result, calls>>

(***************************************************************************)
(* Bounds of the model.                                                    *)
(***************************************************************************)
MaxFactors == 2
MaxBase == 1
MaxEvidence == 2
MaxCalls == 2

\* Python's order on the variable names used (sorted() on str).
VarOrder == <<"a", "b", "c", "d">>

GenVars == {"a", "b", "c"}

\* The cardinalities the factors of one model agree on.
CardChoices ==
    { [v \in GenVars |-> 2],
      [v \in GenVars |-> IF v = "c" THEN 3 ELSE 2] }

\* The value indices a caller passes as evidence (0 and 1 in range, 2 too big
\* for a variable of two values).
ValueSet == 0 .. 2

Range(s) == { s[i] : i \in DOMAIN s }

NoFactor == [vars |-> <<"none">>, shape |-> <<0>>, table |-> <<>>]

(***************************************************************************)
(* numpy helpers                                                           *)
(***************************************************************************)
\* All index tuples of an array of the given shape (itertools.product of ranges).
RECURSIVE MaxOf(_)
MaxOf(s) ==
    IF s = <<>> THEN 0
    ELSE LET m == MaxOf(Tail(s)) IN IF Head(s) > m THEN Head(s) ELSE m

Assignments(shape) ==
    IF Len(shape) = 0 THEN { <<>> }
    ELSE { s \in [1 .. Len(shape) -> 0 .. MaxOf(shape) - 1] :
             \A i \in 1 .. Len(shape) : s[i] < shape[i] }

RECURSIVE SumSeq(_)
SumSeq(s) == IF s = <<>> THEN 0 ELSE Head(s) + SumSeq(Tail(s))

RECURSIVE SumSet(_, _)
SumSet(f, S) ==
    IF S = {} THEN 0
    ELSE LET x == CHOOSE y \in S : TRUE IN f[x] + SumSet(f, S \ {x})

\* np.sum(table): the total of all entries.
NpSumAll(f) == SumSet(f.table, DOMAIN f.table)

\* s without its element at position p.
DropAt(s, p) == [i \in 1 .. Len(s) - 1 |-> IF i < p THEN s[i] ELSE s[i + 1]]

\* s with x inserted so that it ends at position p.
InsertAt(s, p, x) ==
    [i \in 1 .. Len(s) + 1 |-> IF i < p THEN s[i] ELSE IF i = p THEN x ELSE s[i - 1]]

\* np.take(table, k, axis=p) for an index k already checked and wrapped.
NpTake(table, shape, p, k) ==
    [s \in Assignments(DropAt(shape, p)) |-> table[InsertAt(s, p, k)]]

\* np.sum(table, axis=p).
NpSumAxis(table, shape, p) ==
    [s \in Assignments(DropAt(shape, p)) |->
        SumSeq([k \in 1 .. shape[p] |-> table[InsertAt(s, p, k - 1)]])]

\* a[mask] for a boolean mask: the entries of a where the mask is True.
BoolIndex(a, mask) ==
    LET keep == SelectSeq([i \in 1 .. Len(a) |-> i], LAMBDA i : mask[i])
    IN  [j \in 1 .. Len(keep) |-> a[keep[j]]]

\* a[index] for a list of positions: entry j is a[index[j]].
FancyIndex(a, index) == [j \in 1 .. Len(index) |-> a[index[j]]]

\* An index tuple is inside an array of the given shape.
InBounds(a, shape) == \A p \in 1 .. Len(shape) : a[p] >= 0 /\ a[p] < shape[p]

\* list(sorted(S)) for a set of variable names.
Sorted(S) == SelectSeq(VarOrder, LAMBDA v : v \in S)

(***************************************************************************)
(* class Factor                                                            *)
(***************************************************************************)
has_var(f, var) == var \in Range(f.vars)

\* self.vars.index(var): the position of var (called only when present).
var_index(f, var) == CHOOSE i \in 1 .. Len(f.vars) : f.vars[i] = var

is_valid(f) == Len(f.vars) > 0

\* Factor.reduce(var, value_idx): [err, f].  list.index raises ValueError for
\* an absent name; np.take (mode='raise') raises IndexError outside
\* -n .. n-1 and wraps a negative index inside it.
reduce(f, var, value_idx) ==
    IF ~has_var(f, var) THEN [err |-> "ValueError", f |-> f]
    ELSE LET index == var_index(f, var)
             n == f.shape[index]
         IN  IF value_idx >= n \/ value_idx < -n
             THEN [err |-> "IndexError", f |-> f]
             ELSE LET k == IF value_idx < 0 THEN value_idx + n ELSE value_idx
                  IN  [err |-> "ok",
                       f |-> [vars |-> DropAt(f.vars, index),
                              shape |-> DropAt(f.shape, index),
                              table |-> NpTake(f.table, f.shape, index, k)]]

\* sum_over with its slip: the table is summed along its last axis, whatever
\* the position of var.
sum_over_last_axis(f, var) ==
    IF ~has_var(f, var) THEN [err |-> "ValueError", f |-> f]
    ELSE LET var_idx == var_index(f, var)
         IN  [err |-> "ok",
              f |-> [vars |-> DropAt(f.vars, var_idx),
                     shape |-> DropAt(f.shape, Len(f.shape)),
                     table |-> NpSumAxis(f.table, f.shape, Len(f.shape))]]

\* Factor.sum_over(var): [err, f].
sum_over(f, var) ==
    IF ~has_var(f, var) THEN [err |-> "ValueError", f |-> f]
    ELSE LET var_idx == var_index(f, var)
         IN  [err |-> "ok",
              f |-> [vars |-> DropAt(f.vars, var_idx),
                     shape |-> DropAt(f.shape, var_idx),
                     table |-> NpSumAxis(f.table, f.shape, var_idx)]]

\* x / total in numpy arithmetic: a zero total gives nan or +-inf (with a
\* RuntimeWarning, no exception); otherwise the quotient num/den.
NpDivide(x, total) ==
    [kind |-> IF total # 0 THEN "finite"
              ELSE IF x = 0 THEN "nan" ELSE IF x > 0 THEN "inf" ELSE "-inf",
     num |-> x, den |-> total]

\* Factor.normalize(): [err, f].
normalize(f) ==
    LET total == NpSumAll(f)
    IN  [err |-> "ok",
         f |-> [f EXCEPT !.table = [s \in DOMAIN f.table |-> NpDivide(f.table[s], total)]]]

\* index_1 / index_2 of __mul__: for every variable of the sorted union that
\* the factor has, the variable's position in the factor.
MulIndex(f, all_variables) ==
    LET own == SelectSeq(all_variables, LAMBDA v : has_var(f, v))
    IN  [j \in 1 .. Len(own) |-> var_index(f, own[j])]

\* mask_1 / mask_2 of __mul__.
MulMask(f, all_variables) ==
    [i \in 1 .. Len(all_variables) |-> has_var(f, all_variables[i])]

\* num_values of __mul__: the axis length of each variable of the union,
\* read from self when self has it and from the other factor otherwise.
MulNumValues(self, factor, all_variables) ==
    [i \in 1 .. Len(all_variables) |->
        IF has_var(self, all_variables[i])
        THEN self.shape[var_index(self, all_variables[i])]
        ELSE factor.shape[var_index(factor, all_variables[i])]]

\* assignment_1 / assignment_2 of __mul__: assignment_np[mask][index].
MulProject(assignment, mask, index) == FancyIndex(BoolIndex(assignment, mask), index)

\* Factor.__mul__(self, factor): [err, f].  With no variable at all the masks
\* are np.array([]), a float array, and indexing with it raises IndexError;
\* a projected index outside a table raises IndexError as well.
mul(self, factor) ==
    LET all_variables == Sorted(Range(self.vars) \cup Range(factor.vars))
        index_1 == MulIndex(self, all_variables)
        index_2 == MulIndex(factor, all_variables)
        mask_1 == MulMask(self, all_variables)
        mask_2 == MulMask(factor, all_variables)
        num_values == MulNumValues(self, factor, all_variables)
        asg == Assignments(num_values)
    IN  IF Len(all_variables) = 0 THEN [err |-> "IndexError", f |-> NoFactor]
        ELSE IF \E a \in asg :
                   \/ ~InBounds(MulProject(a, mask_1, index_1), self.shape)
                   \/ ~InBounds(MulProject(a, mask_2, index_2), factor.shape)
        THEN [err |-> "IndexError", f |-> NoFactor]
        ELSE [err |-> "ok",
              f |-> [vars |-> all_variables,
                     shape |-> num_values,
                     table |-> [a \in asg |->
                                  self.table[MulProject(a, mask_1, index_1)]
                                  * factor.table[MulProject(a, mask_2, index_2)]]]]

\* Factor.__rmul__(self, factor).
rmul(self, factor) == mul(self, factor)

(***************************************************************************)
(* class Factors                                                           *)
(*                                                                         *)
(* An intermediate result that is used more than once is bound with        *)
(* TheOne({ ... : r \in {e} }), which evaluates e once.                    *)
(***************************************************************************)
TheOne(S) == CHOOSE x \in S : TRUE

\* functools.reduce(lambda x, y: x * y, fs) with the first element taken: [err, f].
RECURSIVE ReduceMulFrom(_, _)
ReduceMulFrom(acc, fs) ==
    IF fs = <<>> THEN [err |-> "ok", f |-> acc]
    ELSE TheOne({ IF r.err # "ok" THEN r ELSE ReduceMulFrom(r.f, Tail(fs)) :
                  r \in { mul(acc, Head(fs)) } })

\* functools.reduce(lambda x, y: x * y, fs): [err, f]; TypeError on an empty list.
ReduceMul(fs) ==
    IF fs = <<>> THEN [err |-> "TypeError", f |-> NoFactor]
    ELSE ReduceMulFrom(Head(fs), Tail(fs))

\* Factors.eliminate_variable(var) on the list fs: [err, factors].
eliminate_variable(fs, var) ==
    TheOne({ IF r.err # "ok" THEN [err |-> r.err, factors |-> fs]
             ELSE [err |-> "ok",
                   factors |-> SelectSeq(fs, LAMBDA f : ~has_var(f, var))
                               \o << sum_over(r.f, var).f >>] :
             r \in { ReduceMul(SelectSeq(fs, LAMBDA f : has_var(f, var))) } })

\* The loop of Factors.eliminate: [err, factors]; an exception leaves the
\* list as the completed calls made it.
RECURSIVE EliminateLoop(_, _)
EliminateLoop(fs, ordering) ==
    IF ordering = <<>> THEN [err |-> "ok", factors |-> fs]
    ELSE TheOne({ IF r.err # "ok" THEN r ELSE EliminateLoop(r.factors, Tail(ordering)) :
                  r \in { eliminate_variable(fs, Head(ordering)) } })

\* Factors.eliminate(ordering): [err, factors, result]; the failed assert is
\* an AssertionError.
eliminate(fs, ordering) ==
    TheOne({ IF l.err # "ok"
             THEN [err |-> l.err, factors |-> l.factors, result |-> NoFactor]
             ELSE IF ~(Len(l.factors) > 0)
             THEN [err |-> "AssertionError", factors |-> l.factors, result |-> NoFactor]
             ELSE TheOne({ [err |-> r.err, factors |-> l.factors, result |-> r.f] :
                           r \in { ReduceMul(l.factors) } }) :
             l \in { EliminateLoop(fs, ordering) } })

\* The inner loop of Factors.condition with its slip: every axis position is
\* looked up in the factor as it was before the first reduction (f0).
RECURSIVE ConditionStaleFrom(_, _, _, _)
ConditionStaleFrom(f0, f, evars, values) ==
    IF evars = <<>> \/ values = <<>> THEN [err |-> "ok", f |-> f]
    ELSE IF has_var(f0, Head(evars))
    THEN IF var_index(f0, Head(evars)) > Len(f.vars)
         THEN [err |-> "IndexError", f |-> f]
         ELSE TheOne({ IF r.err # "ok" THEN r
                       ELSE ConditionStaleFrom(f0, r.f, Tail(evars), Tail(values)) :
                       r \in { reduce(f, f.vars[var_index(f0, Head(evars))], Head(values)) } })
    ELSE ConditionStaleFrom(f0, f, Tail(evars), Tail(values))

ConditionFactorStale(f, evars, values) == ConditionStaleFrom(f, f, evars, values)

\* The inner loop of Factors.condition on one factor: [err, f].
RECURSIVE ConditionFactor(_, _, _)
ConditionFactor(f, evars, values) ==
    IF evars = <<>> \/ values = <<>> THEN [err |-> "ok", f |-> f]
    ELSE IF has_var(f, Head(evars))
    THEN TheOne({ IF r.err # "ok" THEN r
                  ELSE ConditionFactor(r.f, Tail(evars), Tail(values)) :
                  r \in { reduce(f, Head(evars), Head(values)) } })
    ELSE ConditionFactor(f, Tail(evars), Tail(values))

\* The outer loop of Factors.condition from position i on: [err, factors].
RECURSIVE ConditionLoop(_, _, _, _)
ConditionLoop(fs, i, evars, values) ==
    IF i > Len(fs) THEN [err |-> "ok", factors |-> fs]
    ELSE TheOne({ IF r.err # "ok"
                  THEN [err |-> r.err, factors |-> [fs EXCEPT ![i] = r.f]]
                  ELSE ConditionLoop([fs EXCEPT ![i] = r.f], i + 1, evars, values) :
                  r \in { ConditionFactor(fs[i], evars, values) } })

\* Factors.condition(vars, values): [err, factors]; the failed assert is an
\* AssertionError, and the factors left invalid are removed at the end.
condition(fs, evars, values) ==
    IF Len(evars) # Len(values) THEN [err |-> "AssertionError", factors |-> fs]
    ELSE TheOne({ IF l.err # "ok" THEN l
                  ELSE [err |-> "ok", factors |-> SelectSeq(l.factors, is_valid)] :
                  l \in { ConditionLoop(fs, 1, evars, values) } })

(***************************************************************************)
(* The models a caller builds                                              *)
(***************************************************************************)
\* The position of an index tuple in row-major order (numpy's flat index).
RECURSIVE FlatIndex(_, _)
FlatIndex(s, shape) ==
    IF s = <<>> THEN 0
    ELSE LET n == Len(s)
         IN  s[n] + shape[n] * FlatIndex(SubSeq(s, 1, n - 1), SubSeq(shape, 1, n - 1))

\* Factor(vs, base + step * np.arange(size).reshape(shape)).
MakeFactor(vs, shape, base, step) ==
    [vars |-> vs, shape |-> shape,
     table |-> [s \in Assignments(shape) |-> base + step * FlatIndex(s, shape)]]

\* The lists of distinct names from S (any axis order).
DistinctSeqs(S, maxlen) ==
    UNION { { s \in [1 .. n -> S] : \A i, j \in 1 .. n : i # j => s[i] # s[j] } :
            n \in 0 .. maxlen }

VarLists == DistinctSeqs(GenVars, Cardinality(GenVars)) \ { <<>> }

ShapeOf(vs, card) == [i \in 1 .. Len(vs) |-> card[vs[i]]]

\* The valid factors over GenVars with the cardinalities card, every table
\* holding the distinct entries 1, 2, ... in row-major order.
FactorsOf(card) == { MakeFactor(vs, ShapeOf(vs, card), 1, 1) : vs \in VarLists }

\* The same with tables base + step * arange: constant ones (all zero among
\* them) and ones of distinct entries.
TabledFactorsOf(card) ==
    { MakeFactor(vs, ShapeOf(vs, card), base, step) :
        vs \in VarLists, base \in 0 .. MaxBase, step \in 0 .. 1 }

\* The collections of at most MaxFactors factors, every variable of two values.
Collections == UNION { [1 .. n -> FactorsOf([v \in GenVars |-> 2])] : n \in 0 .. MaxFactors }

\* scripts/simple_ve.py: the chain a -> b -> c -> d, entries in tenths
\* (0.8 is 8), so a product of k tables is in units of 10^-k.
ChainCPT == [s \in Assignments(<<2, 2>>) |->
               IF s = <<0, 0>> THEN 7 ELSE IF s = <<0, 1>> THEN 3
               ELSE IF s = <<1, 0>> THEN 1 ELSE 9]

Chain ==
    << [vars |-> <<"a">>, shape |-> <<2>>,
        table |-> [s \in Assignments(<<2>>) |-> IF s = <<0>> THEN 8 ELSE 2]],
       [vars |-> <<"a", "b">>, shape |-> <<2, 2>>, table |-> ChainCPT],
       [vars |-> <<"b", "c">>, shape |-> <<2, 2>>, table |-> ChainCPT],
       [vars |-> <<"c", "d">>, shape |-> <<2, 2>>, table |-> ChainCPT] >>

\* What callers pass.
Orderings == DistinctSeqs(GenVars, Cardinality(GenVars))

EvidenceVars == DistinctSeqs(GenVars, MaxEvidence)

EvidenceValues(n) == [1 .. n -> ValueSet]

\* The value indices passed to Factor.reduce directly: below -n, wrapping,
\* in range and above n - 1 for axes of two and three values.
ReduceIndexSet == -4 .. 3

NoCall == [op |-> "none", var |-> "", value |-> 0, ordering |-> <<>>, evars |-> <<>>,
           values |-> <<>>, pre |-> <<>>, err |-> "ok",
           prev |-> [err |-> "none", f |-> NoFactor]]

(***************************************************************************)
(* Spec: a Factors collection as a state machine, one action per public    *)
(* method, each the whole call.  last records the call just made: its      *)
(* arguments, the list before it (pre) and how it ended (err); result is   *)
(* what it returned.                                                       *)
(***************************************************************************)
Init ==
    /\ factors \in Collections \cup {Chain}
    /\ last = NoCall
    /\ result = NoFactor
    /\ calls = 0

Condition ==
    /\ calls < MaxCalls
    /\ calls' = calls + 1
    /\ \E evars \in EvidenceVars : \E values \in EvidenceValues(Len(evars)) :
        \E r \in { condition(factors, evars, values) } :
            /\ factors' = r.factors
            /\ last' = [NoCall EXCEPT !.op = "condition", !.evars = evars,
                                      !.values = values, !.pre = factors,
                                      !.err = r.err]
            /\ result' = NoFactor

EliminateVariable ==
    /\ calls < MaxCalls
    /\ calls' = calls + 1
    /\ \E var \in Range(VarOrder) :
        \E r \in { eliminate_variable(factors, var) } :
            /\ factors' = r.factors
            /\ last' = [NoCall EXCEPT !.op = "eliminate_variable", !.var = var,
                                      !.pre = factors, !.err = r.err]
            /\ result' = NoFactor

Eliminate ==
    /\ calls < MaxCalls
    /\ calls' = calls + 1
    /\ \E ordering \in Orderings :
        \E r \in { eliminate(factors, ordering) } :
            /\ factors' = r.factors
            /\ result' = r.result
            /\ last' = [NoCall EXCEPT !.op = "eliminate", !.ordering = ordering,
                                      !.pre = factors, !.err = r.err]

Next == Condition \/ EliminateVariable \/ Eliminate

Spec == Init /\ [][Next]_vars

\* SpecFresh: the same methods, each called once on a collection as built.
NextFresh ==
    \/ calls = 0 /\ Condition
    \/ calls = 0 /\ EliminateVariable
    \/ calls = 0 /\ Eliminate

SpecFresh == Init /\ [][NextFresh]_vars

(***************************************************************************)
(* SpecFactor: the methods of one Factor, called in any sequence.  factors *)
(* holds the one factor; a factor's life stops at normalize here.          *)
(***************************************************************************)
InitFactor ==
    /\ \E card \in CardChoices : \E f \in TabledFactorsOf(card) : factors = <<f>>
    /\ last = NoCall
    /\ result = NoFactor
    /\ calls = 0

Reduce ==
    /\ last.op # "normalize"
    /\ \E var \in GenVars, value_idx \in ReduceIndexSet :
        \E r \in { reduce(factors[1], var, value_idx) } :
            /\ factors' = << r.f >>
            /\ last' = [NoCall EXCEPT !.op = "reduce", !.var = var,
                                      !.value = value_idx, !.pre = factors,
                                      !.err = r.err]
    /\ UNCHANGED <<result, calls>>

SumOver ==
    /\ last.op # "normalize"
    /\ \E var \in GenVars :
        \E r \in { sum_over(factors[1], var) } :
            /\ factors' = << r.f >>
            /\ last' = [NoCall EXCEPT !.op = "sum_over", !.var = var,
                                      !.pre = factors, !.err = r.err]
    /\ UNCHANGED <<result, calls>>

Normalize ==
    /\ last.op # "normalize"
    /\ \E r \in { normalize(factors[1]) } :
           /\ factors' = << r.f >>
           /\ last' = [NoCall EXCEPT !.op = "normalize", !.pre = factors,
                                     !.err = r.err]
    /\ UNCHANGED <<result, calls>>

NextFactor == Reduce \/ SumOver \/ Normalize

SpecFactor == InitFactor /\ [][NextFactor]_vars

(***************************************************************************)
(* SpecMul: r1 = A * B, then r2 = B * A through __rmul__.  factors holds   *)
(* the operands <<A, B>>; last.prev keeps r1 while result holds r2.        *)
(***************************************************************************)
InitMul ==
    /\ \E card \in CardChoices : \E A, B \in FactorsOf(card) : factors = <<A, B>>
    /\ last = NoCall
    /\ result = NoFactor
    /\ calls = 0

\* A * B: A.__mul__(B).
Mul ==
    /\ last.op = "none"
    /\ \E r \in { mul(factors[1], factors[2]) } :
           /\ result' = r.f
           /\ last' = [NoCall EXCEPT !.op = "mul", !.pre = factors, !.err = r.err]
    /\ UNCHANGED <<factors, calls>>

\* B * A computed as A.__rmul__(B), which is A.__mul__(B) with the operands
\* of the first product swapped: factors[2].__rmul__ applied to factors[1]
\* stands for factors[1] on the right.
RMul ==
    /\ last.op = "mul"
    /\ \E r \in { rmul(factors[2], factors[1]) } :
           /\ result' = r.f
           /\ last' = [NoCall EXCEPT !.op = "rmul", !.pre = factors, !.err = r.err,
                                     !.prev = [err |-> last.err, f |-> result]]
    /\ UNCHANGED <<factors, calls>>

NextMul == Mul \/ RMul

SpecMul == InitMul /\ [][NextMul]_vars

(***************************************************************************)
(* What the claims speak of, stated by variable name and independently of  *)
(* the operators above.                                                    *)
(***************************************************************************)
AllValid(fs) == \A i \in 1 .. Len(fs) : Len(fs[i].vars) > 0

VarsOf(fs) == UNION { Range(fs[i].vars) : i \in 1 .. Len(fs) }

PositionIn(s, v) == CHOOSE i \in 1 .. Len(s) : s[i] = v

\* The joint assignment a over the variables joint, restricted to the
\* variables of f in f's own axis order.
ProjectOnto(f, joint, a) == [p \in 1 .. Len(f.vars) |-> a[PositionIn(joint, f.vars[p])]]

\* The product of A and B entry by entry over the sorted union of their variables.
PointwiseProduct(A, B) ==
    LET joint == Sorted(Range(A.vars) \cup Range(B.vars))
        shape == [i \in 1 .. Len(joint) |->
                    IF joint[i] \in Range(A.vars)
                    THEN A.shape[PositionIn(A.vars, joint[i])]
                    ELSE B.shape[PositionIn(B.vars, joint[i])]]
    IN  [vars |-> joint, shape |-> shape,
         table |-> [a \in Assignments(shape) |->
                      A.table[ProjectOnto(A, joint, a)] * B.table[ProjectOnto(B, joint, a)]]]

\* f with every evidence variable it has fixed at its paired value.
Sliced(f, evars, values) ==
    LET keep == SelectSeq([p \in 1 .. Len(f.vars) |-> p],
                          LAMBDA p : f.vars[p] \notin Range(evars))
        shape == [j \in 1 .. Len(keep) |-> f.shape[keep[j]]]
    IN  [vars |-> [j \in 1 .. Len(keep) |-> f.vars[keep[j]]],
         shape |-> shape,
         table |-> [s \in Assignments(shape) |->
                      f.table[[p \in 1 .. Len(f.vars) |->
                                 IF f.vars[p] \in Range(evars)
                                 THEN values[PositionIn(evars, f.vars[p])]
                                 ELSE s[PositionIn(keep, p)]]]]]

\* Every evidence value is a value index of its variable wherever it appears.
EvidenceInRange(fs, evars, values) ==
    \A i \in 1 .. Len(evars) : \A k \in 1 .. Len(fs) :
        evars[i] \in Range(fs[k].vars) =>
            /\ values[i] >= 0
            /\ values[i] < fs[k].shape[PositionIn(fs[k].vars, evars[i])]

\* The orderings that eliminate the same variables as o.
Reorderings(o) == { q \in Orderings : Len(q) = Len(o) /\ Range(q) = Range(o) }

(***************************************************************************)
(* The claims                                                              *)
(***************************************************************************)

\* C1 (SpecMul): for valid factors A and B in any axis order that agree on
\* shared cardinalities, A * B returns a Factor over the sorted union of the
\* variables whose entry at every joint assignment is A's entry at the
\* assignment projected onto A's variables times B's entry likewise.
C1_MulIsPointwiseProduct ==
    last.op = "mul" =>
        /\ last.err = "ok"
        /\ result = PointwiseProduct(factors[1], factors[2])

\* C2 (Spec): eliminate(ordering) on a collection of valid factors, with
\* every variable of the ordering present in some factor, ends as it does
\* for every other ordering of the same variables: the same returned Factor.
C2_OrderIndependent ==
    ( /\ last.op = "eliminate"
      /\ AllValid(last.pre)
      /\ Range(last.ordering) \subseteq VarsOf(last.pre) ) =>
        \A q \in Reorderings(last.ordering) :
            \A r \in { eliminate(last.pre, q) } :
                r.err = last.err /\ r.result = result

\* C3 (Spec): a condition or eliminate_variable call that returns, made on a
\* collection of valid factors, leaves only valid factors in the collection.
C3_AllFactorsValid ==
    ( /\ last.op \in {"condition", "eliminate_variable"}
      /\ last.err = "ok"
      /\ AllValid(last.pre) ) =>
        AllValid(factors)

\* C4 (Spec): eliminate_variable(v) with v in no factor of the collection
\* ends in the defined outcome: the VariableNotEliminable error, or a
\* no-op that returns normally and leaves the collection as it was.
C4_AbsentVariableDefined ==
    ( /\ last.op = "eliminate_variable"
      /\ last.var \notin VarsOf(last.pre) ) =>
        \/ last.err = "VariableNotEliminable"
        \/ last.err = "ok" /\ factors = last.pre

\* C5 (Spec): eliminate(ordering) whose ordering holds every variable of
\* every factor of the model fails with EmptyModel (in the code: the failed
\* assert on the length of the list) and returns no Factor.
C5_EmptyModelRaised ==
    ( /\ last.op = "eliminate"
      /\ AllValid(last.pre)
      /\ Range(last.ordering) = VarsOf(last.pre) ) =>
        /\ last.err = "AssertionError"
        /\ result = NoFactor

C7_MulCommutes ==
    last.op = "rmul" =>
        /\ last.prev.err = "ok"
        /\ last.err = "ok"
        /\ result.vars = Sorted(Range(factors[1].vars) \cup Range(factors[2].vars))
        /\ result.vars = last.prev.f.vars
        /\ result.table = last.prev.f.table
        /\ factors = last.pre

\* C8 (SpecFactor): reduce(v, value_index) fails with IndexOutOfRange (in the
\* code: IndexError) for every value_index outside 0 .. cardinality(v) - 1,
\* negative ones included, and with VariableNotFound (in the code:
\* ValueError) when v is absent; the factor is then as it was.
C8_ReduceRejects ==
    last.op = "reduce" =>
        LET f == last.pre[1]
        IN  /\ ( /\ last.var \in Range(f.vars)
                 /\ ( \/ last.value < 0
                      \/ last.value >= f.shape[PositionIn(f.vars, last.var)] ) ) =>
                   last.err = "IndexError" /\ factors = last.pre
            /\ last.var \notin Range(f.vars) =>
                   last.err = "ValueError" /\ factors = last.pre

\* C9 (SpecFactor): normalize() on a factor whose entries sum to zero does
\* not return normally and leaves no non-finite entry in the factor.
C9_ZeroMassRejected ==
    ( /\ last.op = "normalize"
      /\ NpSumAll(last.pre[1]) = 0 ) =>
        /\ last.err # "ok"
        /\ factors = last.pre

\* C10 as stated (SpecFresh): eliminate([a, b, c]) on the chain network
\* returns a Factor over [d] whose entries sum to 1.0 and are about
\* [0.460, 0.540] (here in units of 10^-4, to the three decimals given).
C10_ChainMarginalAsStated ==
    ( /\ last.op = "eliminate"
      /\ last.pre = Chain
      /\ last.ordering = <<"a", "b", "c">> ) =>
        /\ last.err = "ok"
        /\ result.vars = <<"d">>
        /\ NpSumAll(result) = 10000
        /\ result.table[<<0>>] \in 4595 .. 4605
        /\ result.table[<<1>>] \in 5395 .. 5405

\* C10 as amended (SpecFresh): eliminate([a, b, c]) on the chain network
\* returns a Factor over [d] whose entries sum to 1.0 and are the
\* forward-propagated marginal [0.3688, 0.6312] (in units of 10^-4).
C10_ChainMarginal ==
    ( /\ last.op = "eliminate"
      /\ last.pre = Chain
      /\ last.ordering = <<"a", "b", "c">> ) =>
        /\ last.err = "ok"
        /\ result.vars = <<"d">>
        /\ result.shape = <<2>>
        /\ NpSumAll(result) = 10000
        /\ result.table[<<0>>] = 3688
        /\ result.table[<<1>>] = 6312

\* C10's case: the chain network with [a, b, c] eliminated and d left.
C10_Witness ==
    /\ last.op = "eliminate"
    /\ last.pre = Chain
    /\ last.ordering = <<"a", "b", "c">>
    /\ last.err = "ok"
    /\ factors = << result >>
    /\ result.vars = <<"d">>

====
